---- MODULE Spec2Model ----
(***************************************************************************)
(* A model of the zakuf-backend document conversion gateway.               *)
(*                                                                         *)
(* Direct workflow (src/main.go): POST /convert and POST /convert-url      *)
(* proxy one request to the remote Gotenberg service.                      *)
(* Staged workflow (src/unnamed/part_000, the upload/process variant of    *)
(* main.go): POST /upload stores files in a session directory, POST        *)
(* /process converts and merges them, a goroutine removes the directory.   *)
(***************************************************************************)
EXTENDS Integers, Sequences, FiniteSets, TLC

VARIABLES
    direct,     \* the direct request being served, from arrival to response
    sessions,   \* the session directories under ./uploads, in creation order
    calls,      \* the POST /process calls, in arrival order
    uploads     \* the directory ./uploads itself and the files directly in it

(***************************************************************************)
(* Bounds of the model.                                                    *)
(***************************************************************************)
\* at most this many form fields of one request differ from their zero value
MaxOptsSet == 2
\* at most this many files in one POST /convert request
MaxDirectFiles == 2
\* at most this many POST /upload calls that reach uuid.New
MaxSessions == 1
\* at most this many files in one POST /upload request
MaxFiles == 2
\* at most this many POST /process calls
MaxCalls == 2
\* at most this many names in the declared order of one POST /process call
MaxOrder == 2
\* the distinct seconds time.Now may fall in when outputs are named
MaxStamps == 2
\* at most this many POST /upload calls that reach uuid.New when the clients
\* also send session ids and names that are paths
MaxPathSessions == 2

(***************************************************************************)
(* Direct workflow: inputs.                                                *)
(***************************************************************************)
BoolFields == {"flatten", "merge", "landscape", "printBackground"}

NumFields ==
    {"paperWidth", "paperHeight", "marginTop", "marginBottom",
     "marginLeft", "marginRight", "scale"}

StrFields == {"nativePageRanges", "indexHtml"}

FormFields == BoolFields \cup NumFields \cup StrFields

\* A form with no option field present.  A numeric field holds the value of
\* its decimal numeral in thousandths (0 when absent: the struct's zero value).
EmptyForm == [f \in FormFields |-> IF f \in NumFields THEN 0 ELSE ""]

\* Sample values of a present field.  The numerals are -1.000, 0.004 and
\* 2.506: none is a tie of the two-decimal rounding.
FormValues(f) ==
    IF f \in BoolFields THEN {"true", "on"}
    ELSE IF f \in NumFields THEN {0 - 1000, 4, 2506}
    ELSE IF f = "nativePageRanges" THEN {"1-3"}
    ELSE {"<html>"}

RECURSIVE FormsWith(_)
FormsWith(k) ==
    IF k = 0 THEN {EmptyForm}
    ELSE LET P == FormsWith(k - 1)
         IN  P \cup UNION {{[o EXCEPT ![f] = v] : v \in FormValues(f)} :
                               o \in P, f \in FormFields}

Forms == FormsWith(MaxOptsSet)

\* the conversionType form field; "" is an absent field
ConversionTypeInputs ==
    {"", "libreoffice", "chromium-html", "chromium-markdown", "chromium-url"}

FileNames == {"a", "b"}

RECURSIVE SeqsUpTo(_, _)
SeqsUpTo(S, n) ==
    IF n = 0 THEN {<<>>}
    ELSE LET P == SeqsUpTo(S, n - 1)
         IN  P \cup {Append(s, x) : s \in {p \in P : Len(p) = n - 1}, x \in S}

DirectFileLists == SeqsUpTo(FileNames, MaxDirectFiles)

URLInputs == {"", "https://example.com"}

\* What the environment does to one handler run.
\*   form_error  c.MultipartForm / c.ShouldBindJSON fails
\*   open_error  fileHeader.Open fails
\*   do_error    client.Do fails: transport error or the 60 s timeout
\*   non200      the remote answers with a status other than 200
\*   read_error  reading the response body fails
\*   ok          the remote answers 200 with a body
Outcomes == {"form_error", "open_error", "do_error", "non200", "read_error", "ok"}

\* bodies the remote may answer with
RemoteBodies == {"%PDF-1", "%PDF-2"}

\* an outcome with the body the remote sends in it
EnvChoices ==
    {<<o, "">> : o \in Outcomes \ {"ok"}} \cup {<<"ok", b>> : b \in RemoteBodies}

(***************************************************************************)
(* Direct workflow: the code.                                              *)
(***************************************************************************)
\* ConversionOptions as the /convert handler fills it from the form
ParseOptions(form) ==
    [Flatten          |-> form["flatten"] = "true",
     Merge            |-> form["merge"] = "true",
     Landscape        |-> form["landscape"] = "true",
     PrintBackground  |-> form["printBackground"] = "true",
     PaperWidth       |-> form["paperWidth"],
     PaperHeight      |-> form["paperHeight"],
     MarginTop        |-> form["marginTop"],
     MarginBottom     |-> form["marginBottom"],
     MarginLeft       |-> form["marginLeft"],
     MarginRight      |-> form["marginRight"],
     Scale            |-> form["scale"],
     NativePageRanges |-> form["nativePageRanges"],
     IndexHTML        |-> form["indexHtml"]]

ZeroOptions == ParseOptions(EmptyForm)

\* the options records a JSON body of /convert-url binds to
JSONOptions == {ParseOptions(f) : f \in Forms}

ConversionTypeOf(conversionTypeStr) ==
    IF conversionTypeStr # "" THEN conversionTypeStr ELSE "libreoffice"

NoEndpoint == ""

\* Endpoint with a bug: the switch has a case for chromium-url
EndpointWithURLCase(conversionType, options) ==
    CASE conversionType = "libreoffice" ->
             IF options.Merge THEN "/forms/libreoffice/merge"
             ELSE "/forms/libreoffice/convert"
      [] conversionType = "chromium-html" -> "/forms/chromium/convert/html"
      [] conversionType = "chromium-markdown" -> "/forms/chromium/convert/markdown"
      [] conversionType = "chromium-url" -> "/forms/chromium/convert/url"
      [] OTHER -> ""

\* the endpoint switch of proxyToGotenbergDirect
Endpoint(conversionType, options) ==
    CASE conversionType = "libreoffice" ->
             IF options.Merge THEN "/forms/libreoffice/merge"
             ELSE "/forms/libreoffice/convert"
      [] conversionType = "chromium-html" -> "/forms/chromium/convert/html"
      [] conversionType = "chromium-markdown" -> "/forms/chromium/convert/markdown"
      [] OTHER -> NoEndpoint

URLEndpoint == "/forms/chromium/convert/url"

\* strings.HasPrefix(conversionType, "chromium") on the types that reach it
HasPrefixChromium(conversionType) ==
    conversionType \in {"chromium-html", "chromium-markdown", "chromium-url"}

\* fmt.Sprintf("%.2f", v) of a value v > 0 given in thousandths
Fmt2(v) ==
    LET h == (v + 5) \div 10
    IN  ToString(h \div 100) \o "." \o ToString((h % 100) \div 10) \o ToString(h % 10)

\* WriteFieldIf with a bug: the field is written whatever the condition
WriteFieldAlways(cond, name, value) == << [name |-> name, value |-> value] >>

\* writer.WriteField(name, value) under a condition
WriteFieldIf(cond, name, value) ==
    IF cond THEN << [name |-> name, value |-> value] >> ELSE << >>

\* the fields addGotenbergOptions writes, in the order it writes them
addGotenbergOptions(conversionType, options) ==
    WriteFieldIf(options.Flatten, "flatten", "true")
    \o (IF conversionType = "libreoffice"
        THEN WriteFieldIf(options.Landscape, "landscape", "true")
             \o WriteFieldIf(options.NativePageRanges # "", "nativePageRanges",
                             options.NativePageRanges)
        ELSE << >>)
    \o (IF HasPrefixChromium(conversionType)
        THEN WriteFieldIf(options.PaperWidth > 0, "paperWidth", Fmt2(options.PaperWidth))
             \o WriteFieldIf(options.PaperHeight > 0, "paperHeight", Fmt2(options.PaperHeight))
             \o WriteFieldIf(options.MarginTop > 0, "marginTop", Fmt2(options.MarginTop))
             \o WriteFieldIf(options.MarginBottom > 0, "marginBottom", Fmt2(options.MarginBottom))
             \o WriteFieldIf(options.MarginLeft > 0, "marginLeft", Fmt2(options.MarginLeft))
             \o WriteFieldIf(options.MarginRight > 0, "marginRight", Fmt2(options.MarginRight))
             \o WriteFieldIf(options.PrintBackground, "printBackground", "true")
             \o WriteFieldIf(options.Scale > 0, "scale", Fmt2(options.Scale))
        ELSE << >>)

\* the form file parts, one per uploaded file, in upload order
FileParts(files) == [i \in 1..Len(files) |-> [name |-> "files", value |-> files[i]]]

\* what a proxy call returns, with the outbound requests it made
ProxyResult(requests, result, err) ==
    [requests |-> requests, result |-> result, err |-> err]

\* RoundTrip with a bug: a request that client.Do could not send is sent again
RoundTripRetries(request, outcome, body) ==
    CASE outcome = "do_error" ->
             ProxyResult(<<request, request>>, "", "failed to send request to Gotenberg")
      [] outcome = "non200" ->
             ProxyResult(<<request>>, "", "Gotenberg returned status")
      [] outcome = "read_error" ->
             ProxyResult(<<request>>, "", "failed to read response")
      [] OTHER -> ProxyResult(<<request>>, body, "")

\* the round trip to Gotenberg: client.Do, the status check, io.ReadAll
RoundTrip(request, outcome, body) ==
    CASE outcome = "do_error" ->
             ProxyResult(<<request>>, "", "failed to send request to Gotenberg")
      [] outcome = "non200" ->
             ProxyResult(<<request>>, "", "Gotenberg returned status")
      [] outcome = "read_error" ->
             ProxyResult(<<request>>, "", "failed to read response")
      [] OTHER -> ProxyResult(<<request>>, body, "")

proxyToGotenbergDirect(files, conversionType, options, outcome, body) ==
    IF Endpoint(conversionType, options) = NoEndpoint
    THEN ProxyResult(<< >>, "", "unsupported conversion type")
    ELSE IF outcome = "open_error"
    THEN ProxyResult(<< >>, "", "failed to open file")
    ELSE RoundTrip([endpoint |-> Endpoint(conversionType, options),
                    parts |-> FileParts(files)
                              \o addGotenbergOptions(conversionType, options)],
                   outcome, body)

proxyURLToGotenberg(url, options, outcome, body) ==
    RoundTrip([endpoint |-> URLEndpoint,
               parts |-> << [name |-> "url", value |-> url] >>
                         \o addGotenbergOptions("chromium-url", options)],
              outcome, body)

\* the number of local conversions the /convert handler runs after the
\* remote call failed: its error branch only answers 500
LocalFallbackCalls(conversionType, err) == 0

\* a JSON error response
ErrorResponse(status, message, proxied) ==
    [status |-> status, contentType |-> "application/json", body |-> "",
     error |-> message, requests |-> proxied.requests, localCalls |-> 0]

\* the response to a failed proxy call of the /convert handler
ConvertFailure(conversionType, proxied) ==
    [ErrorResponse(500, "Gotenberg conversion failed", proxied)
        EXCEPT !.localCalls = LocalFallbackCalls(conversionType, proxied.err)]

\* the PDF response: c.Data(200, "application/pdf", result)
PDFResponse(proxied) ==
    [status |-> 200, contentType |-> "application/pdf", body |-> proxied.result,
     error |-> "", requests |-> proxied.requests, localCalls |-> 0]

NoProxy == ProxyResult(<< >>, "", "")

\* ConvertHandler with a bug: the check for an empty file list is missing
ConvertHandlerNoFilesCheck(conversionTypeStr, form, files, outcome, body) ==
    LET conversionType == ConversionTypeOf(conversionTypeStr)
        options == ParseOptions(form)
        proxied == proxyToGotenbergDirect(files, conversionType, options, outcome, body)
    IN  IF outcome = "form_error"
        THEN ErrorResponse(400, "Failed to parse multipart form", NoProxy)
        ELSE IF proxied.err # ""
        THEN ConvertFailure(conversionType, proxied)
        ELSE PDFResponse(proxied)

\* the POST /convert handler
ConvertHandler(conversionTypeStr, form, files, outcome, body) ==
    LET conversionType == ConversionTypeOf(conversionTypeStr)
        options == ParseOptions(form)
        proxied == proxyToGotenbergDirect(files, conversionType, options, outcome, body)
    IN  IF outcome = "form_error"
        THEN ErrorResponse(400, "Failed to parse multipart form", NoProxy)
        ELSE IF Len(files) = 0
        THEN ErrorResponse(400, "No files uploaded", NoProxy)
        ELSE IF proxied.err # ""
        THEN ConvertFailure(conversionType, proxied)
        ELSE PDFResponse(proxied)

\* the POST /convert-url handler
ConvertURLHandler(url, options, outcome, body) ==
    LET proxied == proxyURLToGotenberg(url, options, outcome, body)
    IN  IF outcome = "form_error"
        THEN ErrorResponse(400, "invalid JSON", NoProxy)
        ELSE IF url = ""
        THEN ErrorResponse(400, "URL is required", NoProxy)
        ELSE IF proxied.err # ""
        THEN ErrorResponse(500, "URL conversion failed", proxied)
        ELSE PDFResponse(proxied)

(***************************************************************************)
(* Direct workflow: the state machine.  A request arrives, its handler     *)
(* runs as one step, the response leaves.                                  *)
(***************************************************************************)
NoResponse ==
    [status |-> 0, contentType |-> "", body |-> "", error |-> "",
     requests |-> << >>, localCalls |-> 0]

DirectIdle ==
    [pc |-> "idle", route |-> "", conversionType |-> "", form |-> EmptyForm,
     options |-> ZeroOptions, files |-> << >>, url |-> "", outcome |-> "",
     remoteBody |-> "", resp |-> NoResponse]

\* a POST /convert request arrives, drawn from the given inputs
ConvertArrivesWith(types, forms, lists) ==
    /\ direct.pc = "idle"
    /\ \E t \in types, f \in forms, fs \in lists :
         direct' = [DirectIdle EXCEPT !.pc = "received", !.route = "/convert",
                       !.conversionType = t, !.form = f, !.files = fs]
    /\ UNCHANGED << sessions, calls, uploads >>

ConvertArrives == ConvertArrivesWith(ConversionTypeInputs, Forms, DirectFileLists)

\* a POST /convert-url request arrives, drawn from the given inputs
ConvertURLArrivesWith(urls, opts) ==
    /\ direct.pc = "idle"
    /\ \E u \in urls, o \in opts :
         direct' = [DirectIdle EXCEPT !.pc = "received", !.route = "/convert-url",
                       !.url = u, !.options = o]
    /\ UNCHANGED << sessions, calls, uploads >>

ConvertURLArrives == ConvertURLArrivesWith(URLInputs, JSONOptions)

\* the same requests with no option field and no conversionType: an office
\* conversion of no file or of two, and a URL conversion
PlainConvertArrives ==
    ConvertArrivesWith({""}, {EmptyForm}, {<< >>, << "a", "b" >>})

PlainConvertURLArrives ==
    ConvertURLArrivesWith({"https://example.com"}, {ZeroOptions})

\* Convert with a bug: the handler stores the uploaded files in a new
\* directory under ./uploads before it calls the remote service
ConvertKeepsUpload ==
    /\ direct.pc = "received"
    /\ direct.route = "/convert"
    /\ \E e \in EnvChoices :
         direct' = [direct EXCEPT
                       !.pc = "responded", !.outcome = e[1], !.remoteBody = e[2],
                       !.resp = ConvertHandler(direct.conversionType, direct.form,
                                               direct.files, e[1], e[2])]
    /\ sessions' = Append(sessions,
                          [exists |-> TRUE, files |-> << >>, uploaded |-> << >>,
                           status |-> 0, disclosed |-> FALSE, savedFiles |-> << >>])
    /\ UNCHANGED << calls, uploads >>

Convert ==
    /\ direct.pc = "received"
    /\ direct.route = "/convert"
    /\ \E e \in EnvChoices :
         direct' = [direct EXCEPT
                       !.pc = "responded", !.outcome = e[1], !.remoteBody = e[2],
                       !.resp = ConvertHandler(direct.conversionType, direct.form,
                                               direct.files, e[1], e[2])]
    /\ UNCHANGED << sessions, calls, uploads >>

ConvertURL ==
    /\ direct.pc = "received"
    /\ direct.route = "/convert-url"
    /\ \E e \in {x \in EnvChoices : x[1] # "open_error"} :
         direct' = [direct EXCEPT
                       !.pc = "responded", !.outcome = e[1], !.remoteBody = e[2],
                       !.resp = ConvertURLHandler(direct.url, direct.options,
                                                  e[1], e[2])]
    /\ UNCHANGED << sessions, calls, uploads >>

DirectReturns ==
    /\ direct.pc = "responded"
    /\ direct' = DirectIdle
    /\ UNCHANGED << sessions, calls, uploads >>

(***************************************************************************)
(* Staged workflow: inputs.                                                *)
(***************************************************************************)
\* original names of uploaded files
Names == {"x.docx", "y.pdf", "z.txt"}

UploadLists == SeqsUpTo(Names, MaxFiles)

Orders == SeqsUpTo(Names, MaxOrder)

\* Session ids a client can send to /process: 0 is an absent sessionId
\* parameter, 1..MaxSessions are the uuids of the sessions in creation
\* order, UnknownSession is a uuid no /upload call ever returned.
NoSessionID == 0

UnknownSession == MaxSessions + 1

\* the sessionId parameter ".", which filepath.Join resolves to ./uploads
DotSessionID == 0 - 1

\* the directory name of the session the s-th /upload call created: its uuid
Uuid(s) == "u" \o ToString(s)

\* Declared names with slashes in them, as the elements between the slashes:
\* "/../1_y.pdf", "/../../u2/0_y.pdf" and "/../u1/0_y.pdf"
PathNames ==
    {<< "", "..", "1_y.pdf" >>,
     << "", "..", "..", Uuid(2), "0_y.pdf" >>,
     << "", "..", Uuid(1), "0_y.pdf" >>}

\* strings.Join(elems, "/")
RECURSIVE JoinSlash(_)
JoinSlash(elems) ==
    IF Len(elems) = 1 THEN elems[1]
    ELSE elems[1] \o "/" \o JoinSlash(Tail(elems))

CraftedNames == {JoinSlash(e) : e \in PathNames}

\* the elements of a declared name between its slashes
Split(name) ==
    IF name \in CraftedNames
    THEN CHOOSE e \in PathNames : JoinSlash(e) = name
    ELSE << name >>

\* the upload name the last element of a declared name ends with
BaseName(name) ==
    IF name \in Names THEN name
    ELSE LET last == Split(name)[Len(Split(name))]
             ends == {n \in Names :
                         \E i \in 0..MaxFiles : last = ToString(i) \o "_" \o n}
         IN  IF ends = {} THEN name ELSE CHOOSE n \in ends : TRUE

(***************************************************************************)
(* Staged workflow: files and their contents.                              *)
(***************************************************************************)
\* filepath.Ext of the path "<i>_<name>": the extension its last element
\* ends with
Ext(name) ==
    CASE BaseName(name) = "x.docx" -> ".docx"
      [] BaseName(name) = "y.pdf" -> ".pdf"
      [] BaseName(name) = "z.txt" -> ".txt"
      [] OTHER -> ""

\* strings.ToLower on extensions
ToLower(ext) ==
    CASE ext = ".PDF" -> ".pdf"
      [] ext = ".DOCX" -> ".docx"
      [] OTHER -> ext

\* fmt.Sprintf("%d_%s", i, name), i counted from 0
StoredName(i, name) == ToString(i) \o "_" \o name

\* pdfPath := filePath + ".pdf"
PdfPath(filePath) == filePath \o ".pdf"

\* "merged_" + time.Now().Format("20060102150405") + ".pdf" in second ts
OutputName(ts) == "merged_" \o ToString(ts) \o ".pdf"

\* what a client uploads under a name: one page showing the name
Content(name) == [fmt |-> Ext(name), pages |-> << name >>]

NoContent == [fmt |-> "", pages |-> << >>]

\* convert.ConvertToPdf(doc): the document's pages as a PDF
ConvertToPdf(content) == [fmt |-> ".pdf", pages |-> content.pages]

RECURSIVE ConcatPages(_, _)
ConcatPages(files, paths) ==
    IF paths = << >> THEN << >>
    ELSE files[Head(paths)].pages \o ConcatPages(files, Tail(paths))

\* api.MergeCreateFile(pdfFiles, outputPath): the inputs' pages in the
\* order of pdfFiles
MergePDFs(files, pdfFiles) == [fmt |-> ".pdf", pages |-> ConcatPages(files, pdfFiles)]

NoFiles == [p \in {} |-> NoContent]

\* the directory's files after path is created or overwritten with content
WriteFile(files, path, content) ==
    [q \in DOMAIN files \cup {path} |-> IF q = path THEN content ELSE files[q]]

\* the files SaveUploadedFile has stored when the first k of list are saved
SavedFiles(list, k) ==
    [p \in {StoredName(i - 1, list[i]) : i \in 1..k} |->
        Content(CHOOSE n \in Names : \E i \in 1..k : list[i] = n /\ StoredName(i - 1, n) = p)]

\* savedFiles of the upload response
SavedNames(list, k) == [i \in 1..k |-> StoredName(i - 1, list[i])]

(***************************************************************************)
(* Staged workflow: paths.  A path the handler has built is kept as the    *)
(* string it was built from, relative to the session directory of the      *)
(* call; filepath.Join cleans it when the file is reached.                 *)
(***************************************************************************)
\* "<i>_" put in front of the first element of a name
Prefixed(i, elems) == << ToString(i) \o "_" \o elems[1] >> \o Tail(elems)

\* a suffix put behind the last element
WithSuffix(elems, suffix) ==
    [k \in 1..Len(elems) |-> IF k = Len(elems) THEN elems[k] \o suffix ELSE elems[k]]

\* the paths with slashes the loop builds from the declared names
KnownPaths ==
    UNION {{Prefixed(i, e), WithSuffix(Prefixed(i, e), ".pdf")} :
              i \in 0..(MaxOrder - 1), e \in PathNames}

\* the elements of a built path between its slashes
SplitPath(path) ==
    LET known == {e \in KnownPaths : JoinSlash(e) = path}
    IN  IF known = {} THEN << path >> ELSE CHOOSE e \in known : TRUE

\* filepath.Clean on elements: "" and "." are dropped, ".." drops the
\* element before it
RECURSIVE CleanOnto(_, _)
CleanOnto(stack, rest) ==
    IF rest = << >> THEN stack
    ELSE IF Head(rest) = "" \/ Head(rest) = "."
    THEN CleanOnto(stack, Tail(rest))
    ELSE IF Head(rest) = ".." /\ stack # << >> /\ stack[Len(stack)] # ".."
    THEN CleanOnto(SubSeq(stack, 1, Len(stack) - 1), Tail(rest))
    ELSE CleanOnto(Append(stack, Head(rest)), Tail(rest))

Clean(elems) == CleanOnto(<< >>, elems)

\* sessionDir := filepath.Join("./uploads", sessionID)
SessionDir(sid) ==
    Clean(<< ".", "uploads" >> \o (IF sid = DotSessionID THEN << "." >> ELSE << Uuid(sid) >>))

\* filepath.Join(sessionDir, path)
Locate(sid, path) == Clean(SessionDir(sid) \o SplitPath(path))

NoDir == 0 - 2

\* The directory a cleaned path names: 0 for ./uploads, s for the directory
\* of session s, NoDir for any other place.
DirIndex(elems) ==
    IF elems = << "uploads" >> THEN 0
    ELSE IF /\ Len(elems) = 2
            /\ elems[1] = "uploads"
            /\ \E s \in 1..Len(sessions) : Uuid(s) = elems[2]
    THEN CHOOSE s \in 1..Len(sessions) : Uuid(s) = elems[2]
    ELSE NoDir

\* the directory of a cleaned path and the file name in it
Place(elems) ==
    IF elems = << >> THEN [dir |-> NoDir, file |-> ""]
    ELSE [dir |-> DirIndex(SubSeq(elems, 1, Len(elems) - 1)), file |-> elems[Len(elems)]]

\* os.Stat finds the directory
DirThere(dir) ==
    IF dir = 0 THEN uploads.exists
    ELSE dir \in 1..Len(sessions) /\ sessions[dir].exists

\* the files directly in a directory
FilesIn(dir) ==
    IF ~DirThere(dir) THEN NoFiles
    ELSE IF dir = 0 THEN uploads.files ELSE sessions[dir].files

\* the file a call on sid reaches under a path is there
FileThere(sid, path) ==
    LET place == Place(Locate(sid, path))
    IN  place.file \in DOMAIN FilesIn(place.dir)

\* its content
FileAt(sid, path) ==
    LET place == Place(Locate(sid, path))
    IN  FilesIn(place.dir)[place.file]

\* the session directories after a call on sid wrote content under a path
SessionsWith(sid, path, content) ==
    LET place == Place(Locate(sid, path))
    IN  IF place.dir \in 1..Len(sessions) /\ DirThere(place.dir)
        THEN [sessions EXCEPT ![place.dir].files = WriteFile(@, place.file, content)]
        ELSE sessions

\* ./uploads after a call on sid wrote content under a path
UploadsWith(sid, path, content) ==
    LET place == Place(Locate(sid, path))
    IN  IF place.dir = 0 /\ DirThere(0)
        THEN [uploads EXCEPT !.files = WriteFile(@, place.file, content)]
        ELSE uploads

\* the files a call on sid reaches under the given paths
View(sid, paths) ==
    [p \in {paths[k] : k \in 1..Len(paths)} |-> FileAt(sid, p)]

(***************************************************************************)
(* Staged workflow: POST /upload.                                          *)
(***************************************************************************)
\* What happens to one /upload run that decoded its form: MkdirAll fails,
\* SaveUploadedFile fails at position k (from 1), or all is saved.  (A form
\* that cannot be decoded is answered 400 before anything is touched.)
UploadFates(list) ==
    {[kind |-> "mkdir_error", at |-> 0], [kind |-> "saved", at |-> Len(list)]}
    \cup {[kind |-> "save_error", at |-> k] : k \in 1..Len(list)}

\* the session an /upload run leaves behind, with its response
UploadHandler(list, fate) ==
    CASE fate.kind = "mkdir_error" ->
             [exists |-> FALSE, files |-> NoFiles, uploaded |-> << >>,
              status |-> 500, disclosed |-> FALSE, savedFiles |-> << >>]
      [] fate.kind = "save_error" ->
             [exists |-> TRUE, files |-> SavedFiles(list, fate.at - 1),
              uploaded |-> SubSeq(list, 1, fate.at - 1),
              status |-> 500, disclosed |-> FALSE, savedFiles |-> << >>]
      [] OTHER ->
             [exists |-> TRUE, files |-> SavedFiles(list, Len(list)),
              uploaded |-> list,
              status |-> 200, disclosed |-> TRUE,
              savedFiles |-> SavedNames(list, Len(list))]

\* One /upload run; os.MkdirAll(sessionDir) creates ./uploads as well when
\* it is not there.
UploadWith(lists, max) ==
    /\ Len(sessions) < max
    /\ \E list \in lists :
         \E fate \in UploadFates(list) :
            /\ sessions' = Append(sessions, UploadHandler(list, fate))
            /\ uploads' = IF fate.kind = "mkdir_error" THEN uploads
                          ELSE [uploads EXCEPT !.exists = TRUE]
    /\ UNCHANGED << direct, calls >>

Upload == UploadWith(UploadLists, MaxSessions)

(***************************************************************************)
(* Staged workflow: POST /process.  The handler runs in steps, one per     *)
(* access to the session directory, so that calls and cleanups interleave. *)
(***************************************************************************)
\* the directory the session id of a call resolves to
DirOf(sid) == DirIndex(SessionDir(sid))

\* os.Stat(sessionDir) finds the directory
DirExists(sid) == DirThere(DirOf(sid))

\* the files of sessionDir
DirFiles(sid) == FilesIn(DirOf(sid))

\* the session ids a client can send
ClientSessionIDs ==
    {NoSessionID, UnknownSession} \cup {s \in 1..Len(sessions) : sessions[s].disclosed}

\* the calls on session sid whose cleanup goroutine is asleep
Sleepers(sid) ==
    {d \in 1..Len(calls) : calls[d].sid = sid /\ calls[d].cleanup = "sleeping"}

\* A call at its arrival.  attempts lists the positions convertDocxToPdf was
\* called on, fault says that a step failed on files that were all there,
\* after holds the calls whose cleanup was already asleep at the arrival,
\* merged says that api.MergeCreateFile was called.
NewCall(sid, order) ==
    [sid |-> sid, order |-> order, pc |-> "begin", admitted |-> FALSE, i |-> 0,
     after |-> Sleepers(sid),
     pdfFiles |-> << >>, outputPath |-> "", wrote |-> FALSE,
     status |-> 0, error |-> "", body |-> NoContent,
     attempts |-> << >>, merged |-> FALSE, cleanup |-> "none", fault |-> FALSE]

\* c.JSON(status, gin.H{"error": ...}); return
Respond(call, status, error) ==
    [call EXCEPT !.pc = "done", !.status = status, !.error = error]

\* BeginCall with a bug: the os.Stat check of the session directory is missing
BeginCallNoStat(bind, sid, order) ==
    IF bind = "error" THEN Respond(NewCall(sid, order), 400, "invalid JSON")
    ELSE IF sid = NoSessionID
    THEN Respond(NewCall(sid, order), 400, "Session ID is required")
    ELSE [NewCall(sid, order) EXCEPT
             !.admitted = TRUE,
             !.pc = IF order = << >> THEN "assemble" ELSE "loop"]

\* the handler up to the session existence check
BeginCall(bind, sid, order) ==
    IF bind = "error" THEN Respond(NewCall(sid, order), 400, "invalid JSON")
    ELSE IF sid = NoSessionID
    THEN Respond(NewCall(sid, order), 400, "Session ID is required")
    ELSE IF ~DirExists(sid)
    THEN Respond(NewCall(sid, order), 400, "Invalid session ID")
    ELSE [NewCall(sid, order) EXCEPT
             !.admitted = TRUE,
             !.pc = IF order = << >> THEN "assemble" ELSE "loop"]

\* a POST /process call arrives, drawn from the given inputs
ProcessBeginWith(ids, orders) ==
    /\ Len(calls) < MaxCalls
    /\ \E bind \in {"ok", "error"}, sid \in ids, order \in orders :
         /\ bind = "error" => sid = NoSessionID
         /\ sid = NoSessionID => order = << >>
         /\ calls' = Append(calls, BeginCall(bind, sid, order))
    /\ UNCHANGED << direct, sessions, uploads >>

ProcessBegin == ProcessBeginWith(ClientSessionIDs, Orders)

\* the end of one iteration of the conversion loop
Advance(call) ==
    [call EXCEPT !.i = @ + 1,
                 !.pc = IF call.i + 1 = Len(call.order) THEN "assemble" ELSE "loop"]

\* convertDocxToPdf returned nil: pdfFiles = append(pdfFiles, pdfPath)
ItemConverted(call, pdfPath) ==
    Advance([call EXCEPT !.pdfFiles = Append(@, pdfPath),
                         !.attempts = Append(@, call.i)])

\* ConversionFailed with a bug: the error is written and the return is missing
ConversionFailedNoReturn(call, fault) ==
    Advance([call EXCEPT !.attempts = Append(@, call.i), !.fault = fault,
                         !.status = 500, !.error = "Failed to convert DOCX to PDF"])

\* convertDocxToPdf returned an error: 500 and return
ConversionFailed(call, fault) ==
    Respond([call EXCEPT !.attempts = Append(@, call.i), !.fault = fault],
            500, "Failed to convert DOCX to PDF")

\* ItemIsPdf with a bug: the path is put in front of the paths readied so far
ItemIsPdfPrepended(call, filePath) ==
    Advance([call EXCEPT !.pdfFiles = << filePath >> \o @])

\* ext == ".pdf": pdfFiles = append(pdfFiles, filePath), with no look at the file
ItemIsPdf(call, filePath) ==
    Advance([call EXCEPT !.pdfFiles = Append(@, filePath)])

\* any other extension: 400 and return
UnsupportedFormat(call, ext) ==
    Respond(call, 400, "Unsupported file format: " \o ext)

\* the name the loop derives for the item at the call's position
FilePath(call) == StoredName(call.i, call.order[call.i + 1])

ItemExt(call) == ToLower(Ext(call.order[call.i + 1]))

\* One iteration of the conversion loop.  convertDocxToPdf fails when the
\* document is not there, and may fail on a document that is.
ProcessItem(c) ==
    /\ c \in 1..Len(calls)
    /\ calls[c].pc = "loop"
    /\ LET call == calls[c]
           filePath == FilePath(call)
           pdfPath == PdfPath(filePath)
       IN  IF ItemExt(call) = ".docx"
           THEN IF ~FileThere(call.sid, filePath)
                THEN /\ calls' = [calls EXCEPT ![c] = ConversionFailed(call, FALSE)]
                     /\ UNCHANGED << sessions, uploads >>
                ELSE \/ /\ calls' = [calls EXCEPT ![c] = ItemConverted(call, pdfPath)]
                        /\ sessions' = SessionsWith(call.sid, pdfPath,
                               ConvertToPdf(FileAt(call.sid, filePath)))
                        /\ uploads' = UploadsWith(call.sid, pdfPath,
                               ConvertToPdf(FileAt(call.sid, filePath)))
                     \/ /\ calls' = [calls EXCEPT ![c] = ConversionFailed(call, TRUE)]
                        /\ UNCHANGED << sessions, uploads >>
           ELSE IF ItemExt(call) = ".pdf"
           THEN /\ calls' = [calls EXCEPT ![c] = ItemIsPdf(call, filePath)]
                /\ UNCHANGED << sessions, uploads >>
           ELSE /\ calls' = [calls EXCEPT ![c] = UnsupportedFormat(call, ItemExt(call))]
                /\ UNCHANGED << sessions, uploads >>
    /\ UNCHANGED direct

\* the deliverable is in place: on to c.File
Assembled(call, outputPath) ==
    [call EXCEPT !.pc = "serve", !.outputPath = outputPath, !.wrote = TRUE]

\* a step failed on files that were all there
Faulted(call, status, error) == Respond([call EXCEPT !.fault = TRUE], status, error)

\* what may happen to the single-file copy and to the merge
AssembleFates(n) ==
    IF n = 1 THEN {"ok", "create_error", "copy_error"}
    ELSE IF n > 1 THEN {"ok", "merge_error"}
    ELSE {"ok"}

\* The assembly: the copy of a single PDF, the merge of several, or the
\* refusal of none.  os.Create and the merge fail when sessionDir is gone.
ProcessAssemble(c) ==
    /\ c \in 1..Len(calls)
    /\ calls[c].pc = "assemble"
    /\ \E ts \in 1..MaxStamps, fate \in AssembleFates(Len(calls[c].pdfFiles)) :
         LET call == calls[c]
             pdfFiles == call.pdfFiles
             outputPath == OutputName(ts)
         IN  IF Len(pdfFiles) = 1
             THEN IF ~FileThere(call.sid, pdfFiles[1])
                  THEN /\ calls' = [calls EXCEPT ![c] =
                              Respond(call, 500, "Failed to open file")]
                       /\ UNCHANGED << sessions, uploads >>
                  ELSE IF ~DirExists(call.sid)
                  THEN /\ calls' = [calls EXCEPT ![c] =
                              Respond(call, 500, "Failed to create output file")]
                       /\ UNCHANGED << sessions, uploads >>
                  ELSE IF fate = "create_error"
                  THEN /\ calls' = [calls EXCEPT ![c] =
                              Faulted(call, 500, "Failed to create output file")]
                       /\ UNCHANGED << sessions, uploads >>
                  ELSE IF fate = "copy_error"
                  THEN /\ calls' = [calls EXCEPT ![c] =
                              Faulted([call EXCEPT !.wrote = TRUE], 500,
                                      "Failed to copy file")]
                       /\ sessions' = SessionsWith(call.sid, outputPath, NoContent)
                       /\ uploads' = UploadsWith(call.sid, outputPath, NoContent)
                  ELSE /\ calls' = [calls EXCEPT ![c] = Assembled(call, outputPath)]
                       /\ sessions' = SessionsWith(call.sid, outputPath,
                                                   FileAt(call.sid, pdfFiles[1]))
                       /\ uploads' = UploadsWith(call.sid, outputPath,
                                                 FileAt(call.sid, pdfFiles[1]))
             ELSE IF Len(pdfFiles) > 1
             THEN IF \/ \E k \in 1..Len(pdfFiles) : ~FileThere(call.sid, pdfFiles[k])
                     \/ ~DirExists(call.sid)
                  THEN /\ calls' = [calls EXCEPT ![c] =
                              Respond([call EXCEPT !.merged = TRUE], 500,
                                      "Failed to merge PDFs")]
                       /\ UNCHANGED << sessions, uploads >>
                  ELSE IF fate = "merge_error"
                  THEN /\ calls' = [calls EXCEPT ![c] =
                              Faulted([call EXCEPT !.merged = TRUE], 500,
                                      "Failed to merge PDFs")]
                       /\ UNCHANGED << sessions, uploads >>
                  ELSE /\ calls' = [calls EXCEPT ![c] =
                              Assembled([call EXCEPT !.merged = TRUE], outputPath)]
                       /\ sessions' = SessionsWith(call.sid, outputPath,
                              MergePDFs(View(call.sid, pdfFiles), pdfFiles))
                       /\ uploads' = UploadsWith(call.sid, outputPath,
                              MergePDFs(View(call.sid, pdfFiles), pdfFiles))
             ELSE /\ calls' = [calls EXCEPT ![c] =
                         Respond(call, 400, "No files to process")]
                  /\ UNCHANGED << sessions, uploads >>
    /\ UNCHANGED direct

\* Served with a bug: the cleanup goroutine is never started
ServedNoCleanup(call, files) ==
    [call EXCEPT
        !.pc = "done",
        !.status = IF call.outputPath \in DOMAIN files THEN 200 ELSE 404,
        !.body = IF call.outputPath \in DOMAIN files
                 THEN files[call.outputPath] ELSE NoContent]

\* c.File(outputPath), then go func() { time.Sleep(1 * time.Hour); ... }()
Served(call, files) ==
    [call EXCEPT
        !.pc = "done",
        !.status = IF call.outputPath \in DOMAIN files THEN 200 ELSE 404,
        !.body = IF call.outputPath \in DOMAIN files
                 THEN files[call.outputPath] ELSE NoContent,
        !.cleanup = "sleeping"]

ProcessServe(c) ==
    /\ c \in 1..Len(calls)
    /\ calls[c].pc = "serve"
    /\ calls' = [calls EXCEPT ![c] = Served(calls[c], DirFiles(calls[c].sid))]
    /\ UNCHANGED << direct, sessions, uploads >>

\* RemoveAll with a bug: os.Remove, which leaves a directory that has files
RemoveEmptyOnly(session) ==
    IF DOMAIN session.files = {} THEN [session EXCEPT !.exists = FALSE] ELSE session

\* os.RemoveAll(sessionDir): nothing is left, and nothing is wrong when
\* nothing was there
RemoveAll(session) == [session EXCEPT !.exists = FALSE, !.files = NoFiles]

\* the goroutine of call c wakes after its hour and removes the directory
Cleanup(c) ==
    /\ c \in 1..Len(calls)
    /\ calls[c].cleanup = "sleeping"
    /\ calls' = [calls EXCEPT ![c].cleanup = "done"]
    /\ IF DirOf(calls[c].sid) = 0
       THEN /\ sessions' = [s \in 1..Len(sessions) |-> RemoveAll(sessions[s])]
            /\ uploads' = [exists |-> FALSE, files |-> NoFiles]
       ELSE /\ sessions' = [sessions EXCEPT ![DirOf(calls[c].sid)] = RemoveAll(@)]
            /\ UNCHANGED uploads
    /\ UNCHANGED direct

NextStaged ==
    \/ Upload
    \/ ProcessBegin
    \/ \E c \in 1..MaxCalls : ProcessItem(c)
    \/ \E c \in 1..MaxCalls : ProcessAssemble(c)
    \/ \E c \in 1..MaxCalls : ProcessServe(c)
    \/ \E c \in 1..MaxCalls : Cleanup(c)

vars == << direct, sessions, calls, uploads >>

Init ==
    /\ direct = DirectIdle
    /\ sessions = << >>
    /\ calls = << >>
    /\ uploads = [exists |-> TRUE, files |-> NoFiles]

NextDirect ==
    \/ ConvertArrives
    \/ ConvertURLArrives
    \/ Convert
    \/ ConvertURL
    \/ DirectReturns

SpecDirect == Init /\ [][NextDirect]_vars

Spec == Init /\ [][NextStaged]_vars

\* both workflows side by side, the direct requests without option fields
NextBoth ==
    \/ PlainConvertArrives
    \/ PlainConvertURLArrives
    \/ Convert
    \/ ConvertURL
    \/ DirectReturns
    \/ NextStaged

SpecBoth == Init /\ [][NextBoth]_vars

\* The staged workflow with clients that send whatever strings they like:
\* "." as the sessionId, and names that are paths through "..".  A client
\* knows the uuids /upload returned to it, and no others.
PathUploadLists == {<< "y.pdf", "y.pdf" >>}

PathUpload == UploadWith(PathUploadLists, MaxPathSessions)

PathSessionIDs ==
    {DotSessionID} \cup {s \in 1..Len(sessions) : sessions[s].disclosed}

\* the uuids among the elements of a name were all returned by /upload
KnownToClient(elems) ==
    \A s \in 1..MaxPathSessions :
       (\E k \in 1..Len(elems) : elems[k] = Uuid(s))
       => (s \in 1..Len(sessions) /\ sessions[s].disclosed)

PathOrderNames ==
    {"y.pdf"} \cup {JoinSlash(e) : e \in {p \in PathNames : KnownToClient(p)}}

PathOrders == SeqsUpTo(PathOrderNames, MaxOrder)

PathProcessBegin == ProcessBeginWith(PathSessionIDs, PathOrders)

NextPaths ==
    \/ PathUpload
    \/ PathProcessBegin
    \/ \E c \in 1..MaxCalls : ProcessItem(c)
    \/ \E c \in 1..MaxCalls : ProcessAssemble(c)
    \/ \E c \in 1..MaxCalls : ProcessServe(c)
    \/ \E c \in 1..MaxCalls : Cleanup(c)

SpecPaths == Init /\ [][NextPaths]_vars


\* the cleanup goroutines are scheduled by the Go runtime: each one that
\* sleeps eventually wakes
FairSpec == Spec /\ \A c \in 1..MaxCalls : WF_vars(Cleanup(c))

(***************************************************************************)
(* Properties of the direct workflow, checked under SpecDirect.            *)
(***************************************************************************)
Responded == direct.pc = "responded"

DirectType == ConversionTypeOf(direct.conversionType)

\* the one remote call of the request was made and failed
RemoteCallFailed ==
    /\ Len(direct.resp.requests) = 1
    /\ direct.outcome \in {"do_error", "non200"}

\* C1: a /convert request of type libreoffice whose one remote call failed
\* is followed by exactly one local fallback conversion.
C1_LibreofficeFallsBack ==
    (Responded /\ direct.route = "/convert" /\ DirectType = "libreoffice"
        /\ RemoteCallFailed)
    => direct.resp.localCalls = 1

\* the request is for an engine with no local equivalent
ChromiumRequest ==
    \/ direct.route = "/convert-url"
    \/ direct.route = "/convert" /\ DirectType \in {"chromium-html", "chromium-markdown"}

ChromiumOptions ==
    {"paperWidth", "paperHeight", "marginTop", "marginBottom", "marginLeft",
     "marginRight", "printBackground", "scale"}

RecognizedOptions(endpoint) ==
    CASE endpoint \in {"/forms/libreoffice/convert", "/forms/libreoffice/merge"} ->
             {"flatten", "landscape", "nativePageRanges"}
      [] endpoint = "/forms/chromium/convert/markdown" ->
             ChromiumOptions \cup {"indexHtml"}
      [] OTHER -> ChromiumOptions

\* the names of the option fields of an outbound request
OptionNames(request) ==
    {request.parts[j].name : j \in 1..Len(request.parts)} \ {"files", "url"}

\* C7: the option fields of every outbound request are among the options
\* its engine recognizes; a flatten option of a url conversion is dropped.
C7_OnlyRecognizedOptionsSent ==
    Responded
    => \A k \in 1..Len(direct.resp.requests) :
          OptionNames(direct.resp.requests[k])
             \subseteq RecognizedOptions(direct.resp.requests[k].endpoint)

\* C8: a markdown request with a non-empty indexHtml forwards it to the
\* remote engine.
C8_IndexHtmlForwarded ==
    (Responded /\ direct.route = "/convert" /\ DirectType = "chromium-markdown"
        /\ direct.form["indexHtml"] # "" /\ Len(direct.resp.requests) = 1)
    => \E j \in 1..Len(direct.resp.requests[1].parts) :
          /\ direct.resp.requests[1].parts[j].name = "indexHtml"
          /\ direct.resp.requests[1].parts[j].value = direct.form["indexHtml"]

(***************************************************************************)
(* Properties of the staged workflow, checked under Spec and FairSpec.     *)
(***************************************************************************)
Calls == 1..Len(calls)

\* the call passed the existence check and has not answered yet
InFlight(call) == call.admitted /\ call.pc # "done"

\* how often name occurs in a sequence of names
Count(seq, name) == Cardinality({i \in 1..Len(seq) : seq[i] = name})

IsPermutation(order, uploaded) ==
    /\ Len(order) = Len(uploaded)
    /\ \A n \in Names : Count(order, n) = Count(uploaded, n)

Convertible(seq) == \A i \in 1..Len(seq) : ToLower(Ext(seq[i])) \in {".docx", ".pdf"}

\* C3: the only /process call of a session, declaring a permutation of the
\* uploaded PDF and DOCX names and meeting no converter fault, succeeds with
\* a deliverable whose pages follow the declared order.
C3_ReorderRoundTrip ==
    \A c \in Calls :
       (/\ Len(calls) = 1
        /\ calls[c].pc = "done"
        /\ calls[c].admitted
        /\ ~calls[c].fault
        /\ calls[c].order # << >>
        /\ Convertible(calls[c].order)
        /\ IsPermutation(calls[c].order, sessions[calls[c].sid].uploaded))
       => /\ calls[c].status = 200
          /\ calls[c].body.pages = calls[c].order

\* C4: no cleanup removes a session directory while a /process call on the
\* same session id is in flight; stated for the calls that arrived while the
\* cleanup was asleep, which are in flight for less than its hour.
C4_NoCleanupDuringProcess ==
    [][\A c \in Calls :
          (calls[c].cleanup = "sleeping" /\ calls'[c].cleanup = "done")
          => ~\E d \in Calls : /\ calls[d].sid = calls[c].sid
                                /\ c \in calls[d].after
                                /\ InFlight(calls[d])]_vars

ConversionError == "Failed to convert DOCX to PDF"

\* C5: a /process call in which a conversion failed stopped at that item:
\* it converted no later item, wrote no deliverable and returned no PDF.
C5_AllOrNothing ==
    \A c \in Calls :
       calls[c].error = ConversionError
       => /\ calls[c].pc = "done"
          /\ calls[c].status = 500
          /\ \A k \in 1..Len(calls[c].attempts) : calls[c].attempts[k] <= calls[c].i
          /\ calls[c].attempts[Len(calls[c].attempts)] = calls[c].i
          /\ ~calls[c].wrote
          /\ calls[c].outputPath = ""
          /\ calls[c].body = NoContent

\* a conversion failed at the first of two declared items
C5_Witness ==
    \E c \in Calls :
       /\ calls[c].error = ConversionError
       /\ calls[c].i = 0
       /\ Len(calls[c].order) = 2
       /\ calls[c].fault

\* the declared order leaves out a registered name, or holds a name more
\* than once and more often than it was registered
InvalidOrder(order, uploaded) ==
    \/ \E n \in Names : Count(uploaded, n) > 0 /\ Count(order, n) = 0
    \/ \E n \in Names : Count(order, n) > 1 /\ Count(order, n) > Count(uploaded, n)

\* C6: a /process call on an existing session whose declared order omits a
\* registered name or repeats a name fails and produces no deliverable.
C6_InvalidOrderRejected ==
    \A c \in Calls :
       (/\ calls[c].admitted
        /\ calls[c].pc = "done"
        /\ ~calls[c].fault
        /\ InvalidOrder(calls[c].order, sessions[calls[c].sid].uploaded))
       => /\ calls[c].status >= 400
          /\ ~calls[c].wrote
          /\ calls[c].body = NoContent

\* C9: a /process call whose declared order holds an item that is neither
\* .pdf nor .docx attempts no conversion at all, and ends with the
\* unsupported-format error; stated for the calls that declare the files
\* as they were uploaded and meet no converter fault.
C9_FormatGateFirst ==
    \A c \in Calls :
       (/\ calls[c].admitted
        /\ ~calls[c].fault
        /\ calls[c].order = sessions[calls[c].sid].uploaded
        /\ ~Convertible(calls[c].order))
       => /\ calls[c].attempts = << >>
          /\ calls[c].pc = "done" => calls[c].status = 400

\* C10 as stated: every admitted /process call that has completed, in
\* success or in failure, has scheduled a cleanup.
C10_EveryCompletedCallSchedules ==
    \A c \in Calls :
       (calls[c].admitted /\ calls[c].pc = "done") => calls[c].cleanup # "none"

\* C10 as amended: a completed /process call has scheduled a cleanup
\* exactly when it reached the serving of its deliverable, and the session
\* directory of a call with a scheduled cleanup is eventually removed.
C10_ServedCallSchedules ==
    /\ [](\A c \in Calls :
            calls[c].pc = "done"
            => (calls[c].cleanup # "none" <=> calls[c].status \in {200, 404}))
    /\ \A c \in 1..MaxCalls :
          (c \in Calls /\ calls[c].cleanup = "sleeping")
          ~> (c \in Calls /\ ~DirExists(calls[c].sid))

C10_Witness ==
    \E c \in Calls :
       /\ calls[c].status = 200
       /\ calls[c].cleanup = "done"
       /\ ~DirExists(calls[c].sid)

\* C11: every cleanup leaves the session directory absent and empty; a
\* cleanup that finds the directory already absent changes nothing in the
\* storage; and a directory that is absent stays absent under every step,
\* the steps of /process calls still running included.
C11_DestroyIdempotent ==
    [][/\ \A c \in Calls :
            (calls[c].cleanup = "sleeping" /\ calls'[c].cleanup = "done")
            => /\ ~sessions'[calls[c].sid].exists
               /\ sessions'[calls[c].sid].files = NoFiles
               /\ ~sessions[calls[c].sid].exists => sessions' = sessions
       /\ \A s \in 1..Len(sessions) :
            ~sessions[s].exists
            => ~sessions'[s].exists /\ sessions'[s].files = NoFiles]_vars

\* two /process calls on one session were served, and both cleanups ran
C11_Witness ==
    \E c, d \in Calls :
       /\ c # d
       /\ calls[c].sid = calls[d].sid
       /\ calls[c].cleanup = "done"
       /\ calls[d].cleanup = "done"
       /\ calls[c].status = 200
       /\ calls[d].status = 200

\* the bytes of the PDF the loop readied for the item at position i (from 0)
\* of a call: the stored PDF itself, or the conversion of the stored DOCX
ReadyBytes(call, i) ==
    IF ToLower(Ext(call.order[i + 1])) = ".docx"
    THEN ConvertToPdf(Content(call.order[i + 1]))
    ELSE Content(call.order[i + 1])

\* C12: a direct response that succeeds carries the body the remote
\* service returned, unchanged; a /process call with exactly one readied
\* PDF that succeeds returns the bytes of that PDF, and never called the
\* merge; stated for the runs in which no copy, merge or conversion failed
\* on files that were there.
C12_PassthroughIdentity ==
    /\ (Responded /\ direct.resp.status = 200)
       => direct.resp.body = direct.remoteBody
    /\ \A c \in Calls :
          (/\ calls[c].pc = "done"
           /\ calls[c].status = 200
           /\ \A d \in Calls : ~calls[d].fault
           /\ Len(calls[c].pdfFiles) = 1)
          => /\ calls[c].body = ReadyBytes(calls[c], 0)
             /\ ~calls[c].merged

(***************************************************************************)
(* Further properties of the direct workflow, checked under SpecDirect.    *)
(***************************************************************************)
\* the endpoints of the outbound requests of the answered request
SentTo == {direct.resp.requests[k].endpoint : k \in 1..Len(direct.resp.requests)}

\* C13: the endpoint of every outbound request follows from the conversion
\* type and the merge flag alone: libreoffice goes to the office convert
\* endpoint, to the office merge endpoint exactly when the merge flag is
\* set, chromium-html and chromium-markdown go to their endpoints, a
\* /convert-url request goes to the URL endpoint, and any other type sent
\* to /convert is answered with an error and no outbound request.
C13_EndpointSelection ==
    Responded
    => /\ direct.route = "/convert-url"
          => SentTo \subseteq {"/forms/chromium/convert/url"}
       /\ (direct.route = "/convert" /\ DirectType = "libreoffice")
          => /\ direct.form["merge"] = "true"
                => SentTo \subseteq {"/forms/libreoffice/merge"}
             /\ direct.form["merge"] # "true"
                => SentTo \subseteq {"/forms/libreoffice/convert"}
       /\ (direct.route = "/convert" /\ DirectType = "chromium-html")
          => SentTo \subseteq {"/forms/chromium/convert/html"}
       /\ (direct.route = "/convert" /\ DirectType = "chromium-markdown")
          => SentTo \subseteq {"/forms/chromium/convert/markdown"}
       /\ (/\ direct.route = "/convert"
           /\ DirectType \notin {"libreoffice", "chromium-html", "chromium-markdown"})
          => /\ SentTo = {}
             /\ direct.resp.status >= 400
             /\ direct.resp.error # ""
             /\ direct.resp.body = ""

\* a /convert request of type chromium-url with a file was answered, and
\* the remote service would have been ready to answer
C13_Witness ==
    /\ Responded
    /\ direct.route = "/convert"
    /\ DirectType = "chromium-url"
    /\ Len(direct.files) = 1
    /\ direct.outcome = "ok"
    /\ direct.resp.status = 500

(***************************************************************************)
(* Properties of both workflows, checked under SpecBoth.                   *)
(***************************************************************************)
\* C14: a /process call with an empty declared order runs no conversion,
\* calls no merge, writes no deliverable and schedules no cleanup, and once
\* admitted it is answered 400 "No files to process"; a /convert request
\* with no file is answered 400 with no outbound request, no local
\* conversion and no PDF.
C14_ZeroItemsFail ==
    /\ \A c \in Calls :
          calls[c].order = << >>
          => /\ calls[c].attempts = << >>
             /\ ~calls[c].merged
             /\ ~calls[c].wrote
             /\ calls[c].outputPath = ""
             /\ calls[c].cleanup = "none"
             /\ calls[c].pc = "done"
                => /\ calls[c].status = 400
                   /\ calls[c].body = NoContent
                   /\ calls[c].admitted => calls[c].error = "No files to process"
    /\ (Responded /\ direct.route = "/convert" /\ direct.files = << >>)
       => /\ direct.resp.status = 400
          /\ direct.resp.requests = << >>
          /\ direct.resp.localCalls = 0
          /\ direct.resp.body = ""
          /\ direct.outcome # "form_error" => direct.resp.error = "No files uploaded"

\* an admitted /process call with an empty order was answered, and a
\* /convert request with no file was answered although the remote service
\* was ready
C14_Witness ==
    /\ \E c \in Calls :
          /\ calls[c].order = << >>
          /\ calls[c].admitted
          /\ calls[c].pc = "done"
    /\ Responded
    /\ direct.route = "/convert"
    /\ direct.files = << >>
    /\ direct.outcome = "ok"

(***************************************************************************)
(* Further properties of the staged workflow, checked under Spec.          *)
(***************************************************************************)
\* the JSON object of an error response of /process: gin.H{"error": ...},
\* with the system's message when the single PDF could not be opened
ErrorBody(call) ==
    IF call.error = "Failed to open file"
    THEN [error |-> call.error, message |-> "open: no such file or directory"]
    ELSE [error |-> call.error]

\* the call returned from inside the conversion loop, at position call.i
FailedInLoop(call) ==
    /\ call.admitted
    /\ call.pc = "done"
    /\ call.i < Len(call.order)

\* C15: the error response of a /process call that failed at an item
\* identifies the position of that item: two calls that failed at
\* different positions were not sent the same error object.
C15_FailureNamesIndex ==
    \A c, d \in Calls :
       (/\ FailedInLoop(calls[c])
        /\ FailedInLoop(calls[d])
        /\ ErrorBody(calls[c]) = ErrorBody(calls[d]))
       => calls[c].i = calls[d].i

\* C16: at most one /process call ever passed the existence check of a
\* session id.
C16_ProcessedAtMostOnce ==
    \A c, d \in Calls :
       (calls[c].admitted /\ calls[d].admitted /\ calls[c].sid = calls[d].sid)
       => c = d

(***************************************************************************)
(* Further properties of both workflows, checked under SpecBoth.           *)
(***************************************************************************)
\* the path the loop readies for the item at position i (from 0) of a call
ReadyPath(call, i) ==
    IF ToLower(Ext(call.order[i + 1])) = ".docx"
    THEN PdfPath(StoredName(i, call.order[i + 1]))
    ELSE StoredName(i, call.order[i + 1])

IsFilePart(part) == part.name = "files"

\* the file names of the "files" parts of an outbound request, in the
\* order of the parts
SentFiles(request) ==
    LET sel == SelectSeq(request.parts, IsFilePart)
    IN  [k \in 1..Len(sel) |-> sel[k].value]

\* C17: the paths a /process call hands to the merge are one per declared
\* item, the path readied for position 0, then for position 1, and so on;
\* the outbound request of a /convert call holds each uploaded file once,
\* in upload order.
C17_MultiItemOrder ==
    /\ \A c \in Calls :
          calls[c].merged
          => /\ Len(calls[c].pdfFiles) = Len(calls[c].order)
             /\ \A k \in 1..Len(calls[c].order) :
                   calls[c].pdfFiles[k] = ReadyPath(calls[c], k - 1)
    /\ (Responded /\ direct.route = "/convert")
       => \A k \in 1..Len(direct.resp.requests) :
             SentFiles(direct.resp.requests[k]) = direct.files

\* a /process call merged a converted document and a PDF, and a /convert
\* call sent two files
C17_Witness ==
    /\ \E c \in Calls :
          /\ calls[c].merged
          /\ calls[c].status = 200
          /\ calls[c].order = << "x.docx", "y.pdf" >>
    /\ Responded
    /\ direct.route = "/convert"
    /\ direct.files = << "a", "b" >>
    /\ Len(direct.resp.requests) = 1

(***************************************************************************)
(* Numeric options of the direct workflow, checked under SpecDirect.       *)
(***************************************************************************)
\* the options of the answered request
DirectOptions ==
    IF direct.route = "/convert" THEN ParseOptions(direct.form) ELSE direct.options

\* the value of the numeric option sent under the form field name f
NumOption(options, f) ==
    CASE f = "paperWidth" -> options.PaperWidth
      [] f = "paperHeight" -> options.PaperHeight
      [] f = "marginTop" -> options.MarginTop
      [] f = "marginBottom" -> options.MarginBottom
      [] f = "marginLeft" -> options.MarginLeft
      [] f = "marginRight" -> options.MarginRight
      [] OTHER -> options.Scale

\* the two-decimal numerals of the positive sample values 0.004 and 2.506
TwoDecimals(v) == IF v = 4 THEN "0.00" ELSE IF v = 2506 THEN "2.51" ELSE "none"

\* the values the parts of a request hold under the name f
PartValues(request, f) ==
    {request.parts[j].value : j \in {i \in 1..Len(request.parts) : request.parts[i].name = f}}

\* how many parts of a request have the name f
PartCount(request, f) ==
    Cardinality({i \in 1..Len(request.parts) : request.parts[i].name = f})

C19_DirectStateless ==
    [][direct' # direct => sessions' = sessions]_vars

\* a direct call that reached the remote service was answered with the
\* PDF while a session directory with files was in place
C19_Witness ==
    /\ Responded
    /\ direct.resp.status = 200
    /\ Len(direct.resp.requests) = 1
    /\ \E s \in 1..Len(sessions) :
          /\ sessions[s].exists
          /\ DOMAIN sessions[s].files # {}

(***************************************************************************)
(* The session existence check, checked under Spec.                        *)
(***************************************************************************)
InvalidSession == "Invalid session ID"

\* a cleanup of a call on session sid has run
Destroyed(sid) == \E d \in Calls : calls[d].sid = sid /\ calls[d].cleanup = "done"

\* C20: a /process call that arrives with a session id whose directory is
\* not there, because it was never created or because a cleanup has
\* removed it, is answered 400 "Invalid session ID" in that step and
\* leaves the storage as it was; a call answered this way has converted
\* nothing, written nothing and scheduled no cleanup.
C20_AbsentSessionRejected ==
    /\ [](\A c \in Calls :
            calls[c].error = InvalidSession
            => /\ calls[c].pc = "done"
               /\ calls[c].status = 400
               /\ ~calls[c].admitted
               /\ calls[c].attempts = << >>
               /\ ~calls[c].merged
               /\ ~calls[c].wrote
               /\ calls[c].body = NoContent
               /\ calls[c].cleanup = "none")
    /\ [][Len(calls') = Len(calls) + 1
          => LET call == calls'[Len(calls')]
             IN  (/\ call.sid # NoSessionID
                  /\ \/ ~DirExists(call.sid)
                     \/ Destroyed(call.sid))
                 => /\ call.error = InvalidSession
                    /\ sessions' = sessions]_vars

\* a /process call on a session id whose cleanup had run was rejected
C20_Witness ==
    \E c \in Calls :
       /\ calls[c].error = InvalidSession
       /\ Destroyed(calls[c].sid)

(***************************************************************************)
(* Properties of the staged workflow when session ids and names are any    *)
(* strings a client may send, checked under SpecPaths.                     *)
(***************************************************************************)
\* the directory a path of a call lies in
PathDir(call, path) == Place(Locate(call.sid, path)).dir

\* the call has opened every path it readied: the copy or the merge ran
HasRead(call) == call.outputPath # ""

\* C21: every path a /process call on a session has read lies in the
\* directory of that session; and the directory of a session that exists
\* changes only in a step of a /process call, or of a cleanup, that was
\* made on the id of that session: an /upload call touches none but the
\* one it creates.
C21_SessionIsolation ==
    /\ [](\A c \in Calls :
            HasRead(calls[c])
            => \A k \in 1..Len(calls[c].pdfFiles) :
                  PathDir(calls[c], calls[c].pdfFiles[k]) = calls[c].sid)
    /\ [][\A s \in 1..Len(sessions) :
             [exists |-> sessions'[s].exists, files |-> sessions'[s].files]
                # [exists |-> sessions[s].exists, files |-> sessions[s].files]
             => \E c \in Calls :
                   /\ calls[c].sid = s
                   /\ calls'[c] # calls[c]]_vars

\* C22: the directory of a session is removed only in the step of a
\* cleanup that a successful /process call on the id of that session had
\* scheduled; a session no /process call succeeded on stays for ever.
C22_RemovedOnlyByOwnCleanup ==
    [][\A s \in 1..Len(sessions) :
          (sessions[s].exists /\ ~sessions'[s].exists)
          => \E c \in Calls :
                /\ calls[c].sid = s
                /\ calls[c].status = 200
                /\ calls[c].cleanup = "sleeping"
                /\ calls'[c].cleanup = "done"]_vars

\* the original names of the items /upload stored for a session id, in
\* upload order
UploadOrder(sid) ==
    IF sid \in 1..Len(sessions) THEN sessions[sid].uploaded ELSE << >>

\* C23: a /process call that succeeded declared a prefix of the upload
\* order of its session: at every position the declared name is the
\* original name of the item uploaded at that position.
C23_SuccessDeclaresUploadPrefix ==
    \A c \in Calls :
       (calls[c].pc = "done" /\ calls[c].status = 200)
       => /\ Len(calls[c].order) <= Len(UploadOrder(calls[c].sid))
          /\ \A i \in 1..Len(calls[c].order) :
                calls[c].order[i] = UploadOrder(calls[c].sid)[i]

\* the directory an /upload call left behind when SaveUploadedFile failed
FailedUpload(session) == session.status = 500 /\ session.exists

\* C24: an /upload call that fails while saving the item at position k
\* answers 500 without a session id and leaves the items at positions
\* 0..k-1 stored in a directory whose uuid no response carried; and no
\* later step removes that directory or changes a file in it.
C24_FailedUploadKept ==
    /\ [][Len(sessions') = Len(sessions) + 1
          => LET session == sessions'[Len(sessions')]
             IN  FailedUpload(session)
                 => /\ ~session.disclosed
                    /\ session.savedFiles = << >>
                    /\ session.files =
                          SavedFiles(session.uploaded, Len(session.uploaded))]_vars
    /\ [][\A s \in 1..Len(sessions) :
             FailedUpload(sessions[s]) => sessions'[s] = sessions[s]]_vars

====
